---- MODULE Spec2Model ----
(***************************************************************************)
(* A model of ustorage: the storage contract of ustorage/bases.py and its  *)
(* S3 backend, ustorage/s3.py.  The bucket is a map from keys to objects;  *)
(* every public method is an operator computing, from the bucket and the   *)
(* arguments, the method's outcome (a return value or a raised exception), *)
(* the bucket it leaves and the put requests it issued.  Names, contents   *)
(* and messages are sequences of characters (or of byte values), so that   *)
(* prefixes, splits, encodings and substring tests are computed.           *)
(***************************************************************************)
EXTENDS Integers, Sequences, FiniteSets, TLC

VARIABLES py, objects, last, procs, gan

vars == <<py, objects, last, procs, gan>>

(***************************************************************************)
(* Bounds of the model.                                                    *)
(***************************************************************************)
MaxBuf == 2
MaxTries == 2

(***************************************************************************)
(* Character sequences.                                                    *)
(***************************************************************************)
UpperLetters == <<"A", "B", "C", "D", "E", "F", "G", "H", "I", "J", "K", "L", "M",
                  "N", "O", "P", "Q", "R", "S", "T", "U", "V", "W", "X", "Y", "Z">>

LowerLetters == <<"a", "b", "c", "d", "e", "f", "g", "h", "i", "j", "k", "l", "m",
                  "n", "o", "p", "q", "r", "s", "t", "u", "v", "w", "x", "y", "z">>

Digits == <<"0", "1", "2", "3", "4", "5", "6", "7", "8", "9">>

\* str.lower() on one character.
LowerOf == [c \in {UpperLetters[i] : i \in 1..26} |->
               LowerLetters[CHOOSE i \in 1..26 : UpperLetters[i] = c]]

LowerChar(c) == IF c \in DOMAIN LowerOf THEN LowerOf[c] ELSE c

\* str.lower()
Lower(s) == [i \in 1..Len(s) |-> LowerChar(s[i])]

\* `sub in s` for strings
Contains(s, sub) ==
    \E i \in 0..(Len(s) - Len(sub)) : SubSeq(s, i + 1, i + Len(sub)) = sub

\* str.startswith: the Prefix filter of the bucket's listing
StartsWith(s, p) == Len(p) <= Len(s) /\ SubSeq(s, 1, Len(p)) = p

\* s.rfind(c) + 1: the 1-based place of the last c in s, 0 when there is none
RFind(s, c) ==
    IF \E i \in 1..Len(s) : s[i] = c
    THEN CHOOSE i \in 1..Len(s) : s[i] = c /\ \A j \in (i + 1)..Len(s) : s[j] # c
    ELSE 0

\* s.split(c, 1)[0]: what precedes the first c
SplitFirst(s, c) ==
    IF \E i \in 1..Len(s) : s[i] = c
    THEN SubSeq(s, 1, (CHOOSE i \in 1..Len(s) : s[i] = c /\ \A j \in 1..(i - 1) : s[j] # c) - 1)
    ELSE s

(***************************************************************************)
(* Python values: None, text, and outcomes of a call.                      *)
(***************************************************************************)
Val(t, v) == [t |-> t, v |-> v]
NoneVal == Val("none", <<>>)
Str(s) == Val("str", s)

NoExc == [cls |-> "", client |-> FALSE, msg |-> <<>>, cause |-> ""]
Return(v) == [kind |-> "return", val |-> v, exc |-> NoExc]
Raise(e) == [kind |-> "raise", val |-> <<>>, exc |-> e]

\* ustorage.exceptions.FileNotFound
FileNotFound == [cls |-> "FileNotFound", client |-> FALSE, msg |-> <<>>, cause |-> ""]

\* the error of reading an attribute an object does not have
AttributeError == [cls |-> "AttributeError", client |-> FALSE, msg |-> <<>>, cause |-> ""]

(***************************************************************************)
(* The S3 service behind boto3.  A request meets one of the conditions of  *)
(* Faults; "ok" is a reachable bucket the caller may use.  An error is its *)
(* class name, whether it is a botocore ClientError, its error message and *)
(* (for the claims only) its cause.  ClientError's text is the template    *)
(* "An error occurred (<code>) when calling the <op> operation: " followed *)
(* by the message; the template holds no "not found", so msg is the        *)
(* message alone.                                                          *)
(***************************************************************************)
Faults == {"ok", "denied", "no_bucket", "network"}

MsgNotFound == <<"N", "o", "t", " ", "F", "o", "u", "n", "d">>
MsgForbidden == <<"F", "o", "r", "b", "i", "d", "d", "e", "n">>
MsgAccessDenied == <<"A", "c", "c", "e", "s", "s", " ", "D", "e", "n", "i", "e", "d">>
MsgNoSuchKey == <<"T", "h", "e", " ", "s", "p", "e", "c", "i", "f", "i", "e", "d", " ",
                  "k", "e", "y", " ", "d", "o", "e", "s", " ", "n", "o", "t", " ",
                  "e", "x", "i", "s", "t", ".">>
MsgNoSuchBucket == <<"T", "h", "e", " ", "s", "p", "e", "c", "i", "f", "i", "e", "d", " ",
                     "b", "u", "c", "k", "e", "t", " ", "d", "o", "e", "s", " ", "n", "o", "t", " ",
                     "e", "x", "i", "s", "t">>

BackendError(cls, msg, cause) == [cls |-> cls, client |-> TRUE, msg |-> msg, cause |-> cause]

\* a connection failure: a botocore exception that is no ClientError
NetworkError == [cls |-> "EndpointConnectionError", client |-> FALSE, msg |-> <<>>, cause |-> "network"]

\* S3 answers a HEAD without a body: the error is the bare status
HeadError(f) ==
    CASE f = "denied" -> BackendError("ClientError", MsgForbidden, "denied")
      [] f = "no_bucket" -> BackendError("ClientError", MsgNotFound, "missing_bucket")
      [] f = "network" -> NetworkError
      [] OTHER -> BackendError("ClientError", MsgNotFound, "missing_key")

\* every other request carries S3's error code; boto3 raises the modelled
\* classes NoSuchKey and NoSuchBucket for theirs
RequestError(f) ==
    CASE f = "denied" -> BackendError("ClientError", MsgAccessDenied, "denied")
      [] f = "no_bucket" -> BackendError("NoSuchBucket", MsgNoSuchBucket, "missing_bucket")
      [] f = "network" -> NetworkError
      [] OTHER -> BackendError("NoSuchKey", MsgNoSuchKey, "missing_key")

Ok(v) == [ok |-> TRUE, val |-> v, exc |-> NoExc]
Err(e) == [ok |-> FALSE, val |-> <<>>, exc |-> e]

\* Object.load(): HEAD
HeadObject(objs, key, f) ==
    IF f = "ok" /\ key \in DOMAIN objs THEN Ok(objs[key]) ELSE Err(HeadError(f))

\* Object.get(): GET
GetObject(objs, key, f) ==
    IF f = "ok" /\ key \in DOMAIN objs THEN Ok(objs[key]) ELSE Err(RequestError(f))

CTypeDefault == <<"b", "i", "n", "a", "r", "y", "/", "o", "c", "t", "e", "t", "-",
                  "s", "t", "r", "e", "a", "m">>

\* the object a put request stores: S3 gives an object put without a
\* content type its default one
StoredObject(req) ==
    [body |-> req["Body"].v,
     ctype |-> IF "ContentType" \in DOMAIN req THEN req["ContentType"].v ELSE CTypeDefault,
     meta |-> IF "Metadata" \in DOMAIN req THEN req["Metadata"].v ELSE <<>>,
     modified |-> "now"]

\* a put that leaves the bucket holding the one object put
PutObjectAlone(objs, req) == (req["Key"].v :> StoredObject(req))

\* Bucket.put_object / Object.put: PUT
PutObject(objs, req) ==
    LET key == req["Key"].v IN
    [k \in DOMAIN objs \cup {key} |-> IF k = key THEN StoredObject(req) ELSE objs[k]]

\* a listing of the one key equal to prefix
ListObjectsExact(objs, prefix) == {k \in DOMAIN objs : k = prefix}

\* bucket.objects.filter(Prefix=prefix): the keys that start with prefix
ListObjects(objs, prefix) == {k \in DOMAIN objs : StartsWith(k, prefix)}

\* the bucket without the keys of ks: DELETE of each
DeleteObjects(objs, ks) == [k \in DOMAIN objs \ ks |-> objs[k]]

MsgInvalidRequest == <<"T", "h", "i", "s", " ", "c", "o", "p", "y", " ", "r", "e", "q", "u", "e", "s", "t", " ", "i", "s", " ", "i", "l", "l", "e", "g", "a", "l">>

(***************************************************************************)
(* The interpreter.  setup.py declares the package for Python 2 and for    *)
(* Python 3; an exception has the attribute `message` on Python 2 only.    *)
(***************************************************************************)
PyVersions == {2, 3}

(***************************************************************************)
(* ustorage/utils and ustorage/bases.py                                    *)
(***************************************************************************)
\* utils.drop_none_values, on a mapping
drop_none_values(data) == [k \in {x \in DOMAIN data : data[x].t # "none"} |-> data[k]]

\* type('')(v) under unicode_literals: the text of a value
text_type(v) == IF v.t = "none" THEN Str(<<"N", "o", "n", "e">>) ELSE Str(v.v)

\* one code point in UTF-8 (up to U+07FF)
EncodeChar(cp) == IF cp < 128 THEN <<cp>> ELSE <<192 + (cp \div 64), 128 + (cp % 64)>>

RECURSIVE EncodeUtf8(_)
\* text.encode('utf8')
EncodeUtf8(text) ==
    IF text = <<>> THEN <<>> ELSE EncodeChar(Head(text)) \o EncodeUtf8(Tail(text))

\* as_binary with every content that is no stream encoded as a text is
as_binary_encoding_bytes(content) ==
    IF content.t = "stream" THEN content.v ELSE EncodeUtf8(content.v)

\* BaseStorage.as_binary: what a stream's read() gives, a text encoded, or
\* the bytes as they are
as_binary(content) ==
    IF content.t = "stream" THEN content.v
    ELSE IF content.t = "text" THEN EncodeUtf8(content.v)
    ELSE content.v

Bytes(b) == Val("bytes", b)
Text(s) == Val("text", s)
Stream(b) == Val("stream", b)

RECURSIVE RStrip(_, _)
\* s.rstrip(c)
RStrip(s, c) == IF s # <<>> /\ s[Len(s)] = c THEN RStrip(SubSeq(s, 1, Len(s) - 1), c) ELSE s

\* os.path.split(p): what precedes the last slash (without trailing slashes,
\* unless it is slashes only) and what follows it
split(p) ==
    LET i == RFind(p, "/")
        head == SubSeq(p, 1, i)
        tail == SubSeq(p, i + 1, Len(p))
    IN  [head |-> IF head # <<>> /\ (\E j \in 1..Len(head) : head[j] # "/")
                  THEN RStrip(head, "/") ELSE head,
         tail |-> tail]

\* os.path.splitext(p): the extension starts at the last dot of the last
\* component, unless only dots precede it there
splitext(p) ==
    LET sep == RFind(p, "/")
        dot == RFind(p, ".")
    IN  IF dot > sep /\ (\E j \in (sep + 1)..(dot - 1) : p[j] # ".")
        THEN [root |-> SubSeq(p, 1, dot - 1), ext |-> SubSeq(p, dot, Len(p))]
        ELSE [root |-> p, ext |-> <<>>]

\* os.path.join(a, b)
join(a, b) ==
    IF b # <<>> /\ b[1] = "/" THEN b
    ELSE IF a = <<>> \/ a[Len(a)] = "/" THEN a \o b
    ELSE a \o <<"/">> \o b

\* files.mime(name, default): the content type of the name's extension
CTypeText == <<"t", "e", "x", "t", "/", "p", "l", "a", "i", "n">>

mime(name, default) ==
    IF splitext(name).ext = <<".", "t">>
    THEN Str(CTypeText)
    ELSE default

\* CaseInsensitiveDict: a mapping that finds a key whatever its casing, kept
\* as lower-cased key |-> (key as given, value)
CaseInsensitiveDict(metadata) ==
    IF metadata.t = "none" THEN <<>>
    ELSE [lk \in {Lower(k) : k \in DOMAIN metadata.v} |->
            LET k == CHOOSE x \in DOMAIN metadata.v : Lower(x) = lk
            IN  [key |-> k, val |-> metadata.v[k]]]

CIDContains(md, k) == Lower(k) \in DOMAIN md

CIDSet(md, k, v) ==
    [lk \in DOMAIN md \cup {Lower(k)} |->
        IF lk = Lower(k)
        THEN [key |-> IF lk \in DOMAIN md THEN md[lk].key ELSE k, val |-> v]
        ELSE md[lk]]

CIDPop(md, k) == [lk \in DOMAIN md \ {Lower(k)} |-> md[lk]]

CIDGet(md, k, default) == IF Lower(k) \in DOMAIN md THEN md[Lower(k)].val ELSE default

\* dict(md): the keys as given
CIDItems(md) == [k \in {md[lk].key : lk \in DOMAIN md} |-> md[Lower(k)].val]

KeyContentType == <<"C", "o", "n", "t", "e", "n", "t", "-", "T", "y", "p", "e">>

(***************************************************************************)
(* ustorage/s3.py                                                          *)
(***************************************************************************)
Res(out, objs, puts) == [out |-> out, objs |-> objs, puts |-> puts]

\* s3._is_no_such_key_error(e)
is_no_such_key_error(e) ==
    IF e.client
    THEN IF e.cls = "NoSuchKey" THEN Return(TRUE)
         ELSE IF py = 3 THEN Raise(AttributeError)
         ELSE IF Contains(Lower(e.msg), <<"n", "o", "t", " ", "f", "o", "u", "n", "d">>)
              THEN Return(TRUE)
              ELSE Return(FALSE)
    ELSE Return(FALSE)

\* `except ClientError as e: if _is_no_such_key_error(e): <hit>; raise`
OnClientError(e, hit) ==
    IF e.client
    THEN LET t == is_no_such_key_error(e)
         IN  IF t.kind = "raise" THEN t
             ELSE IF t.val THEN hit ELSE Raise(e)
    ELSE Raise(e)

\* the object's entity tag: the quoted digest of the body (the digest is
\* kept as the body it is the digest of)
ETag(obj) == <<"\"", obj.body, "\"">>

KeyChecksum == <<"c", "h", "e", "c", "k", "s", "u", "m">>
KeySize == <<"s", "i", "z", "e">>
KeyMime == <<"m", "i", "m", "e">>
KeyModified == <<"m", "o", "d", "i", "f", "i", "e", "d">>

\* dict.update: the entries of other over those of d
DictUpdate(d, other) ==
    [k \in DOMAIN d \cup DOMAIN other |-> IF k \in DOMAIN other THEN other[k] ELSE d[k]]

\* s3._extract_metadata(obj): its first attribute read loads the object (HEAD)
extract_metadata(objs, name, f) ==
    LET r == HeadObject(objs, name, f)
        e_tag == ETag(r.val)
        checksum == <<"md5:">> \o SubSeq(e_tag, 2, Len(e_tag) - 1)
        mimetype == IF r.val.ctype # <<>> THEN Str(SplitFirst(r.val.ctype, ";")) ELSE NoneVal
        meta == [k \in {KeyChecksum, KeySize, KeyMime, KeyModified} |->
                    CASE k = KeyChecksum -> Str(checksum)
                      [] k = KeySize -> Val("int", Len(r.val.body))
                      [] k = KeyMime -> mimetype
                      [] OTHER -> Val("time", r.val.modified)]
    IN  IF r.ok THEN Return(DictUpdate(meta, r.val.meta))
        ELSE OnClientError(r.exc, Raise(FileNotFound))

\* S3Storage.exists
exists(objs, name, f) ==
    LET r == HeadObject(objs, name, f)
    IN  Res(IF r.ok THEN Return(TRUE) ELSE OnClientError(r.exc, Return(FALSE)), objs, <<>>)

\* S3Storage.get
get(objs, name, f) ==
    LET r == GetObject(objs, name, f)
        m == extract_metadata(objs, name, f)
    IN  Res(IF r.ok
            THEN IF m.kind = "return" THEN Return(<<r.val.body, m.val>>)
                 ELSE IF m.exc.client THEN OnClientError(m.exc, Raise(FileNotFound))
                 ELSE m
            ELSE OnClientError(r.exc, Raise(FileNotFound)), objs, <<>>)

\* S3Storage.open in a read mode: the body, as bytes or through a decoder
open_read(objs, name, mode, f) ==
    LET r == GetObject(objs, name, f)
    IN  Res(IF r.ok
            THEN Return(IF Contains(mode, <<"b">>) THEN Val("body", r.val.body)
                        ELSE Val("reader", r.val.body))
            ELSE OnClientError(r.exc, Raise(FileNotFound)), objs, <<>>)

\* S3Storage.read
read(objs, name, f) ==
    LET r == GetObject(objs, name, f)
    IN  Res(IF r.ok THEN Return(r.val.body) ELSE OnClientError(r.exc, Raise(FileNotFound)),
            objs, <<>>)

\* the Metadata argument of write's put: the metadata after the coercion,
\* without its content type and without the None values
PutMetadata(name, metadata) ==
    LET md0 == CaseInsensitiveDict(metadata)
        md1 == [lk \in DOMAIN md0 |-> [key |-> md0[lk].key, val |-> text_type(md0[lk].val)]]
        md2 == IF CIDContains(md1, KeyContentType) THEN md1
               ELSE CIDSet(md1, KeyContentType, mime(name, NoneVal))
    IN  drop_none_values(CIDItems(CIDPop(md2, KeyContentType)))

\* the ContentType argument of write's put
PutContentType(name, metadata) ==
    LET md0 == CaseInsensitiveDict(metadata)
        md1 == [lk \in DOMAIN md0 |-> [key |-> md0[lk].key, val |-> text_type(md0[lk].val)]]
        md2 == IF CIDContains(md1, KeyContentType) THEN md1
               ELSE CIDSet(md1, KeyContentType, mime(name, NoneVal))
    IN  CIDGet(md2, KeyContentType, NoneVal)

\* S3Storage.write
write(objs, name, content, metadata, f) ==
    LET req == drop_none_values(
                   [Key |-> Val("key", name),
                    Body |-> Bytes(as_binary(content)),
                    ContentType |-> PutContentType(name, metadata),
                    Metadata |-> Val("dict", PutMetadata(name, metadata))])
    IN  IF f = "ok" THEN Res(Return(req), PutObject(objs, req), <<req>>)
        ELSE Res(Raise(RequestError(f)), objs, <<req>>)

\* S3Storage.delete
delete(objs, name, f) ==
    IF f = "ok" THEN Res(Return(NoneVal), DeleteObjects(objs, ListObjects(objs, name)), <<>>)
    ELSE Res(Raise(RequestError(f)), objs, <<>>)

\* S3Storage.copy: boto3's managed copy asks for the source's size (HEAD),
\* then copies on the server; S3 refuses to copy an object onto itself with
\* nothing changed
copy(objs, name, target, f) ==
    LET r == HeadObject(objs, name, f)
    IN  IF ~r.ok THEN Res(Raise(r.exc), objs, <<>>)
        ELSE IF name = target
        THEN Res(Raise(BackendError("ClientError", MsgInvalidRequest, "invalid_request")), objs, <<>>)
        ELSE Res(Return(NoneVal),
                 [k \in DOMAIN objs \cup {target} |-> IF k = target THEN objs[name] ELSE objs[k]],
                 <<>>)

\* S3Storage.get_metadata
get_metadata(objs, name, f) == Res(extract_metadata(objs, name, f), objs, <<>>)

\* BaseStorage.DEFAULT_MIME
CTypeDefaultMime == <<"a", "p", "p", "l", "i", "c", "a", "t", "i", "o", "n", "/", "o", "c", "t", "e", "t", "-", "s", "t", "r", "e", "a", "m">>

\* BaseStorage.metadata
metadata(objs, name, f) ==
    LET m == extract_metadata(objs, name, f)
        found == IF KeyMime \in DOMAIN m.val THEN m.val[KeyMime] ELSE NoneVal
    IN  Res(IF m.kind = "return"
            THEN Return(DictUpdate(m.val,
                     (KeyMime :> IF found.t # "none" /\ found.v # <<>> THEN found
                                 ELSE mime(name, Str(CTypeDefaultMime)))))
            ELSE m, objs, <<>>)

\* BaseStorage.move
move(objs, name, target, f) ==
    LET c == copy(objs, name, target, f)
        d == delete(c.objs, name, f)
    IN  IF c.out.kind = "raise" THEN c ELSE d

\* BaseStorage.save
save(objs, file_or_wfs, name, overwrite, f) ==
    LET w == write(objs, name, Bytes(file_or_wfs.v), NoneVal, f)
    IN  IF w.out.kind = "raise" THEN w ELSE Res(Return(name), w.objs, w.puts)

\* the length of the random part of a name: get_random_string(7)
RandomLength == 7

\* a candidate that extends the name tried last
NextCandidateFromCurrent(input, name, r) ==
    LET sp == split(name)
        se == splitext(sp.tail)
    IN  join(sp.head, se.root \o <<"_">> \o r \o se.ext)

\* BaseStorage.get_available_name, the name tried after `name` existed: the
\* input's root, an underscore, the random string r and the input's
\* extension, in the input's directory
NextCandidate(input, name, r) ==
    LET sp == split(input)
        se == splitext(sp.tail)
    IN  join(sp.head, se.root \o <<"_">> \o r \o se.ext)

(***************************************************************************)
(* S3Storage.open in a write mode: a generator under @contextmanager.  The *)
(* caller's scope runs at the yield; leaving it normally resumes the       *)
(* generator after the yield, leaving it by an exception raises that       *)
(* exception at the yield, which nothing there catches.                    *)
(***************************************************************************)
\* tempfile.SpooledTemporaryFile(): an empty binary file
NewFile == [data |-> <<>>, pos |-> 0]

\* f.write(b): b over the bytes at the position, which moves past it
FileWrite(file, b) ==
    [data |-> SubSeq(file.data, 1, file.pos) \o b
                \o SubSeq(file.data, file.pos + Len(b) + 1, Len(file.data)),
     pos |-> file.pos + Len(b)]

\* f.seek(n)
FileSeek(file, n) == [file EXCEPT !.pos = n]

\* f.read(): the bytes from the position to the end
FileRead(file) == SubSeq(file.data, file.pos + 1, Len(file.data))

\* the body of a commit that reads the file from where the writes left it
CommitBodyWithoutSeek(file) == FileRead(file)

\* f.seek(0); f.read(): the body of the put on leaving the scope
CommitBody(file) == FileRead(FileSeek(file, 0))

\* the generator resumed after the yield: obj.put(Body=f.read())
open_write_exit(objs, name, file, f) ==
    LET req == [Key |-> Val("key", name), Body |-> Bytes(CommitBody(file))]
    IN  IF f = "ok" THEN Res(Return(NoneVal), PutObject(objs, req), <<req>>)
        ELSE Res(Raise(RequestError(f)), objs, <<req>>)

(***************************************************************************)
(* The state: the interpreter, the bucket, and the record of the last call *)
(* (what was called, the bucket before it, its outcome and its puts).      *)
(***************************************************************************)
Keys == {<<"a">>, <<"a", "b">>, <<"b">>}

BytesInputs == {<<>>, <<97>>, <<195, 169>>}

Contents == {Bytes(b) : b \in BytesInputs} \cup {Text(<<233>>), Stream(<<97>>)}

Sources == {Stream(b) : b \in BytesInputs}

ReadModes == {<<"r">>, <<"r", "b">>}

WriteFaults == {"ok", "denied"}

NoCall == [op |-> "init", name |-> <<>>, target |-> <<>>, content |-> NoneVal, flag |-> NoneVal,
           fault |-> "ok", pre |-> <<>>, out |-> Return(NoneVal), puts |-> <<>>,
           prevw |-> NoneVal]

Call(op, name, target, content, flag, f, r, prevw) ==
    LET res == r IN
    /\ objects' = res.objs
    /\ last' = [op |-> op, name |-> name, target |-> target, content |-> content,
                flag |-> flag, fault |-> f, pre |-> objects, out |-> res.out,
                puts |-> res.puts, prevw |-> prevw]
    /\ UNCHANGED <<py, procs, gan>>

Procs == {1, 2}

\* a caller: where it is, the name it writes, its open file, and (for the
\* claims) the bytes it wrote and whether it finished inside the other's scope
NoProcs == [p \in Procs |-> [pc |-> "idle", name |-> <<>>, file |-> NewFile,
                             written |-> <<>>, overlapped |-> FALSE]]

\* a call of get_available_name: where it is, its argument, the name it
\* tries, and (for the claims) each name it tried with whether the bucket
\* held it at that moment
NoGan == [pc |-> "idle", name |-> <<>>, input |-> <<>>, checked |-> <<>>]

Init ==
    /\ py \in PyVersions
    /\ objects = <<>>
    /\ last = NoCall
    /\ procs = NoProcs
    /\ gan = NoGan

\* Each action calls one public method with inputs drawn from small sets:
\* ks the names, fs the conditions the backend may be in.
Exists(ks, fs) ==
    \E n \in ks, f \in fs :
        Call("exists", n, <<>>, NoneVal, NoneVal, f, exists(objects, n, f), NoneVal)

\* a read remembers the write it directly follows
Read(ks, fs) ==
    \E n \in ks, f \in fs :
        Call("read", n, <<>>, NoneVal, NoneVal, f, read(objects, n, f),
             IF last.op = "write" /\ last.out.kind = "return"
             THEN Val("write", [name |-> last.name, content |-> last.content,
                                replaced |-> last.name \in DOMAIN last.pre])
             ELSE NoneVal)

OpenRead(ks, fs) ==
    \E n \in ks, m \in ReadModes, f \in fs :
        Call("open", n, <<>>, NoneVal, Str(m), f, open_read(objects, n, m, f), NoneVal)

Get(ks, fs) ==
    \E n \in ks, f \in fs :
        Call("get", n, <<>>, NoneVal, NoneVal, f, get(objects, n, f), NoneVal)

GetMetadata(ks, fs) ==
    \E n \in ks, f \in fs :
        Call("get_metadata", n, <<>>, NoneVal, NoneVal, f, get_metadata(objects, n, f), NoneVal)

Metadata(ks, fs) ==
    \E n \in ks, f \in fs :
        Call("metadata", n, <<>>, NoneVal, NoneVal, f, metadata(objects, n, f), NoneVal)

Write(ks, cs, ms, fs) ==
    \E n \in ks, c \in cs, m \in ms, f \in fs :
        Call("write", n, <<>>, c, m, f, write(objects, n, c, m, f), NoneVal)

Save(ks, fs) ==
    \E s \in Sources, n \in ks, ow \in BOOLEAN, f \in fs :
        Call("save", n, <<>>, s, Val("bool", ow), f, save(objects, s, n, ow, f), NoneVal)

Delete(ks, fs) ==
    \E n \in ks, f \in fs :
        Call("delete", n, <<>>, NoneVal, NoneVal, f, delete(objects, n, f), NoneVal)

Copy(ks, fs) ==
    \E n \in ks, t \in ks, f \in fs :
        Call("copy", n, t, NoneVal, NoneVal, f, copy(objects, n, t, f), NoneVal)

Move(ks, fs) ==
    \E n \in ks, t \in ks, f \in fs :
        Call("move", n, t, NoneVal, NoneVal, f, move(objects, n, t, f), NoneVal)

(***************************************************************************)
(* Spec: the calls that change the bucket, against a backend that serves   *)
(* or refuses them, with the reads that observe the result.                *)
(***************************************************************************)
Next ==
    \/ Exists(Keys, {"ok"})
    \/ Read(Keys, {"ok"})
    \/ Write(Keys, Contents, {NoneVal}, WriteFaults)
    \/ Save(Keys, WriteFaults)
    \/ Delete(Keys, WriteFaults)
    \/ Copy(Keys, WriteFaults)
    \/ Move(Keys, WriteFaults)

Spec == Init /\ [][Next]_vars

(***************************************************************************)
(* SpecErrors: the calls that read the bucket, under every condition of    *)
(* the backend, over a bucket that writes and deletes fill and empty.      *)
(***************************************************************************)
NextErrors ==
    \/ Exists(Keys, Faults)
    \/ Read(Keys, Faults)
    \/ OpenRead(Keys, Faults)
    \/ Get(Keys, Faults)
    \/ GetMetadata(Keys, Faults)
    \/ Metadata(Keys, Faults)
    \/ Write(Keys, {Bytes(<<97>>)}, {NoneVal}, {"ok"})
    \/ Delete(Keys, {"ok"})

SpecErrors == Init /\ [][NextErrors]_vars

(***************************************************************************)
(* Claims checked under Spec.                                              *)
(***************************************************************************)
\* p is a prefix of s, said without StartsWith
IsPrefixOf(p, s) == \E t \in {SubSeq(s, i, Len(s)) : i \in 1..(Len(s) + 1)} : p \o t = s

\* C1: save(s, n, overwrite=False) on a name n that exists fails with an
\* "already exists" error before any put is issued, and leaves n's content
\* as it was.
C1_SaveRefusesExisting ==
    (last.op = "save" /\ last.flag.v = FALSE /\ last.name \in DOMAIN last.pre)
        => /\ last.out.kind = "raise"
           /\ last.out.exc.cls = "FileExists"
           /\ last.puts = <<>>
           /\ objects[last.name] = last.pre[last.name]

\* C3: after move(a, b) returns without error, for a that existed, a is gone
\* and b holds the content a held before the move.
C3_MoveKeepsContent ==
    (last.op = "move" /\ last.out.kind = "return")
        => /\ last.name \notin DOMAIN objects
           /\ last.target \in DOMAIN objects
           /\ read(objects, last.target, "ok").out = Return(last.pre[last.name].body)

C8_DeleteRemovesPrefix ==
    (last.op = "delete" /\ last.fault = "ok")
        => /\ last.out.kind = "return"
           /\ DOMAIN objects = {k \in DOMAIN last.pre : ~IsPrefixOf(last.name, k)}
           /\ \A k \in DOMAIN objects : objects[k] = last.pre[k]
           /\ (\A k \in DOMAIN last.pre : ~IsPrefixOf(last.name, k)) => objects = last.pre

\* C8's cases: a delete that removed a longer key and left another one ...
C8_Witness ==
    /\ last.op = "delete" /\ last.out.kind = "return"
    /\ \E k \in DOMAIN last.pre : k # last.name /\ k \notin DOMAIN objects
    /\ objects # <<>>

(***************************************************************************)
(* Claims checked under SpecErrors.                                        *)
(***************************************************************************)
\* C5: for a name that is not in the bucket, exists returns False without
\* raising, and read, open in a read mode and get_metadata raise FileNotFound.
C5_AbsentIsNotFound ==
    (last.fault = "ok" /\ last.name \notin DOMAIN last.pre)
        => /\ last.op = "exists" => last.out = Return(FALSE)
           /\ last.op \in {"read", "open", "get_metadata"} => last.out = Raise(FileNotFound)

\* what C5 says, on Python 2 alone
C5_OnPython2 == py = 2 => C5_AbsentIsNotFound

\* C6: when the backend reports a failure that is not the absence of the
\* object, exists, read, open, get and get_metadata raise that same error.
C6_OtherErrorsPropagate ==
    (last.op \in {"exists", "read", "open", "get", "get_metadata"} /\ last.fault # "ok")
        => /\ last.out.kind = "raise"
           /\ last.out.exc \in {HeadError(last.fault), RequestError(last.fault)}

\* what C6 says, on Python 2 and for the requests that are not a HEAD of a
\* bucket that does not exist
C6_OnPython2ButMissingBucket ==
    (py = 2 /\ ~(last.op \in {"exists", "get_metadata"} /\ last.fault = "no_bucket"))
        => C6_OtherErrorsPropagate

(***************************************************************************)
(* SpecMetadata: writes that give user metadata.                           *)
(***************************************************************************)
KeysMetadata == {<<"a">>, <<"a", ".", "t">>}

KeyLowerContentType == <<"c", "o", "n", "t", "e", "n", "t", "-", "t", "y", "p", "e">>

MetadataInputs ==
    {NoneVal,
     Val("dict", (<<"k">> :> Str(<<"v">>))),
     Val("dict", (<<"k">> :> NoneVal)),
     Val("dict", (<<"k">> :> Val("int", <<"7">>)) @@ (KeyLowerContentType :> Str(<<"t", "e", "x", "t", "/", "h", "t", "m", "l", ";", " ", "c", "h", "a", "r", "s", "e", "t", "=", "x">>)))}

NextMetadata ==
    \/ Write(KeysMetadata, {Bytes(<<97>>)}, MetadataInputs, {"ok"})
    \/ GetMetadata(KeysMetadata, {"ok"})
    \/ Metadata(KeysMetadata, {"ok"})
    \/ Delete(KeysMetadata, {"ok"})

SpecMetadata == Init /\ [][NextMetadata]_vars

\* C10: write(name, content, metadata) issues a single put whose metadata
\* holds every entry given with a value that is not None, as a text, and no
\* entry for a key given with None.  (Stated for the keys other than the
\* content type, which write passes as the put's ContentType.)
C10_PutMetadata ==
    (last.op = "write" /\ last.flag.t = "dict")
        => /\ Len(last.puts) = 1
           /\ LET given == last.flag.v
                  sent == last.puts[1]["Metadata"].v
              IN  \A k \in DOMAIN given :
                      Lower(k) # KeyLowerContentType
                          => IF given[k].t = "none" THEN k \notin DOMAIN sent
                             ELSE k \in DOMAIN sent /\ sent[k] = Str(given[k].v)

\* what C10 says of the entries whose value is not None
C10_GivenValuesSent ==
    (last.op = "write" /\ last.flag.t = "dict")
        => /\ Len(last.puts) = 1
           /\ LET given == last.flag.v
                  sent == last.puts[1]["Metadata"].v
              IN  \A k \in DOMAIN given :
                      (Lower(k) # KeyLowerContentType /\ given[k].t # "none")
                          => k \in DOMAIN sent /\ sent[k] = Str(given[k].v)

(***************************************************************************)
(* SpecOpen: two callers, each writing one name once, by write or through  *)
(* the scope of open(name, 'w'); their steps interleave.                   *)
(***************************************************************************)
Chunks == {<<97>>, <<98>>}

Step(op, p, f, r) ==
    /\ objects' = r.objs
    /\ last' = [op |-> op, name |-> procs'[p].name, target |-> <<>>,
                content |-> Bytes(procs'[p].written), flag |-> Val("proc", p), fault |-> f,
                pre |-> objects, out |-> r.out, puts |-> r.puts, prevw |-> NoneVal]
    /\ UNCHANGED <<py, gan>>

\* with storage.open(n, 'w') as f: the scope is entered
OpenWrite(p) ==
    \E n \in Keys :
        /\ procs[p].pc = "idle"
        /\ procs' = [procs EXCEPT ![p] = [@ EXCEPT !.pc = "scope", !.name = n, !.file = NewFile]]
        /\ Step("open_w", p, "ok", Res(Return(NoneVal), objects, <<>>))

\* f.write(b) inside the scope
ScopeWrite(p) ==
    \E b \in Chunks :
        /\ procs[p].pc = "scope"
        /\ Len(procs[p].written) < MaxBuf
        /\ procs' = [procs EXCEPT ![p] = [@ EXCEPT !.file = FileWrite(@, b),
                                                   !.written = @ \o b]]
        /\ Step("scope_write", p, "ok", Res(Return(NoneVal), objects, <<>>))

\* the scope ends normally
ScopeExit(p) ==
    \E f \in WriteFaults :
        LET r == open_write_exit(objects, procs[p].name, procs[p].file, f) IN
        /\ procs[p].pc = "scope"
        /\ procs' = [procs EXCEPT ![p] = [@ EXCEPT
                        !.pc = IF r.out.kind = "return" THEN "done" ELSE "failed",
                        !.overlapped = \E q \in Procs \ {p} : procs[q].pc = "scope"]]
        /\ Step("open_w_exit", p, f, r)

\* the scope ends by an exception
ScopeError(p) ==
    /\ procs[p].pc = "scope"
    /\ procs' = [procs EXCEPT ![p] = [@ EXCEPT !.pc = "failed"]]
    /\ Step("open_w_error", p, "ok", Res(Raise(AttributeError), objects, <<>>))

\* storage.write(n, c)
ProcWrite(p) ==
    \E n \in Keys, c \in {Bytes(b) : b \in BytesInputs}, f \in WriteFaults :
        LET r == write(objects, n, c, NoneVal, f) IN
        /\ procs[p].pc = "idle"
        /\ procs' = [procs EXCEPT ![p] = [@ EXCEPT
                        !.pc = IF r.out.kind = "return" THEN "done" ELSE "failed",
                        !.name = n, !.written = c.v,
                        !.overlapped = \E q \in Procs \ {p} : procs[q].pc = "scope"]]
        /\ Step("write", p, f, r)

NextOpen ==
    \E p \in Procs :
        \/ OpenWrite(p)
        \/ ScopeWrite(p)
        \/ ScopeExit(p)
        \/ ScopeError(p)
        \/ ProcWrite(p)

SpecOpen == Init /\ [][NextOpen]_vars

\* C2: a scope of open(name, 'w') issues no put while it is open; left
\* normally, it issues exactly one put, for name, carrying everything written;
\* left by an error, it issues no put and leaves the bucket as it was.
C2_ScopedWrite ==
    /\ last.op \in {"open_w", "scope_write", "open_w_error"}
           => last.puts = <<>> /\ objects = last.pre
    /\ last.op = "open_w_exit"
           => /\ Len(last.puts) = 1
              /\ last.puts[1]["Key"].v = last.name
              /\ last.puts[1]["Body"] = last.content
              /\ last.out.kind = "return" => objects[last.name].body = last.content.v
              /\ \A k \in DOMAIN objects \ {last.name} :
                     k \in DOMAIN last.pre /\ objects[k] = last.pre[k]

\* C2's cases: a normal exit after two writes, over an object that existed
C2_Witness ==
    /\ last.op = "open_w_exit" /\ last.out.kind = "return"
    /\ last.content.v = <<97, 98>>
    /\ last.name \in DOMAIN last.pre

\* ... and an exit by error after a write, over an object that existed
C2_WitnessError ==
    /\ last.op = "open_w_error" /\ last.content.v # <<>>
    /\ last.name \in DOMAIN last.pre

\* C9: once two writers to distinct names have both completed, each name
\* reads back what its writer wrote.
C9_DistinctWriters ==
    (procs[1].pc = "done" /\ procs[2].pc = "done" /\ procs[1].name # procs[2].name)
        => \A p \in Procs : read(objects, procs[p].name, "ok").out = Return(procs[p].written)

\* C9's case: one writer finished inside the other's scope, and one name is
\* a prefix of the other
C9_Witness ==
    /\ procs[1].pc = "done" /\ procs[2].pc = "done"
    /\ procs[1].name = <<"a">> /\ procs[2].name = <<"a", "b">>
    /\ procs[1].overlapped
    /\ last.op = "open_w_exit" /\ last.flag.v = 2 /\ last.content.v = <<98, 97>>

(***************************************************************************)
(* SpecName: one call of get_available_name, one turn of its loop at a     *)
(* time, while writes and deletes of other callers change the bucket.      *)
(***************************************************************************)
NameInputs == {<<"a">>, <<"d", "/", "a", ".", "t">>}

RandomChars == {"x", "7"}

\* get_random_string(7), for the draws that repeat one character
RandomStrings == {[i \in 1..RandomLength |-> c] : c \in RandomChars}

KeysName == NameInputs \cup {NextCandidate(n, n, r) : n \in NameInputs, r \in RandomStrings}

GanStep(g) ==
    /\ gan' = g
    /\ last' = [NoCall EXCEPT !.op = "get_available_name", !.name = g.name]
    /\ UNCHANGED <<py, objects, procs>>

\* get_available_name(name) is called
GanStart ==
    \E n \in NameInputs :
        /\ gan.pc = "idle"
        /\ GanStep([pc |-> "loop", name |-> n, input |-> n, checked |-> <<>>])

\* one test of `while self.exists(name)`, and the body or the return
GanCheck ==
    \E f \in WriteFaults, r \in RandomStrings :
        LET e == exists(objects, gan.name, f).out
            seen == Append(gan.checked, [name |-> gan.name, present |-> gan.name \in DOMAIN objects])
        IN  /\ gan.pc = "loop"
            /\ \/ /\ e.kind = "raise"
                  /\ GanStep([gan EXCEPT !.pc = "raised", !.checked = seen])
               \/ /\ e.kind = "return" /\ e.val
                  /\ Len(gan.checked) < MaxTries
                  /\ GanStep([gan EXCEPT !.name = NextCandidate(gan.input, gan.name, r),
                                         !.checked = seen])
               \/ /\ e.kind = "return" /\ ~e.val
                  /\ GanStep([gan EXCEPT !.pc = "returned", !.checked = seen])

NextName ==
    \/ GanStart
    \/ GanCheck
    \/ Write(KeysName, {Bytes(<<97>>)}, {NoneVal}, {"ok"})
    \/ Delete(KeysName, {"ok"})

SpecName == Init /\ [][NextName]_vars

Alphanumeric == {LowerLetters[i] : i \in 1..26} \cup {UpperLetters[i] : i \in 1..26}
                    \cup {Digits[i] : i \in 1..10}

\* name is the input with an underscore and 7 alphanumeric characters put
\* before its extension
HasRandomSuffix(input, name) ==
    LET stem == IF input = <<"a">> THEN <<"a", "_">> ELSE <<"d", "/", "a", "_">>
        ext == IF input = <<"a">> THEN <<>> ELSE <<".", "t">>
        r == SubSeq(name, Len(stem) + 1, Len(stem) + 7)
    IN  /\ Len(name) = Len(input) + 8
        /\ name = stem \o r \o ext
        /\ \A i \in 1..7 : r[i] \in Alphanumeric

\* C7: when get_available_name returns, it returns the first name it tried
\* that the bucket did not hold when tried: the input itself if that did not
\* exist, otherwise the input's directory and root, an underscore, 7 random
\* alphanumeric characters and the input's extension.
C7_AvailableName ==
    gan.pc = "returned"
        => LET n == Len(gan.checked) IN
           /\ gan.checked[1].name = gan.input
           /\ gan.checked[n].name = gan.name
           /\ ~gan.checked[n].present
           /\ \A i \in 1..(n - 1) : gan.checked[i].present
           /\ n = 1 => gan.name = gan.input
           /\ \A i \in 2..n : HasRandomSuffix(gan.input, gan.checked[i].name)

\* C7's case: the input and a first candidate existed, the second did not
C7_Witness ==
    /\ gan.pc = "returned"
    /\ gan.input = <<"d", "/", "a", ".", "t">>
    /\ Len(gan.checked) = 3
    /\ gan.checked[2].name # gan.name

====
